---- MODULE Spec2Model ----
(***************************************************************************)
(* DokuReader: the collection-PDF export of DokuReader.py.                 *)
(*                                                                         *)
(* The catalog (State.topics) holds, per topic, an ordered list of         *)
(* document references.  App.create_collection_pdf starts a worker that    *)
(* filters the list, converts every document to a PDF in a temporary       *)
(* directory (PDFs are passed through), merges the parts into              *)
(* <desktop>/<topic>_<filter>.pdf and posts one message box.               *)
(***************************************************************************)
EXTENDS Integers, Sequences, FiniteSets, TLC

VARIABLES
    caps,          \* REPORTLAB_AVAILABLE, PIL_AVAILABLE (module level)
    current_topic, \* State.current_topic
    topics,        \* State.topics[current topic]: sequence of [path, read]
    fs,            \* the file system outside the temporary directory
    pc,            \* position of the export job
    filter_mode,   \* argument of the worker
    docs,          \* the worker's local list docs
    out_path,      \* the worker's local out_path
    idx,           \* 1-based position of the for loop over docs
    tmpdir,        \* "none" | "exists" | "removed"
    tmpfiles,      \* files inside the temporary directory
    pdf_parts,     \* the worker's local merge list
    log_lines,     \* the worker's local outcome log
    notes,         \* message boxes queued with self.after
    merge_calls,   \* arguments of every _merge_pdfs call
    appended,      \* inputs whose pages the merger wrote, in append order
    escaped,       \* an exception left the worker
    fs_before,     \* the file system when the job started
    part_doc,      \* for every entry of pdf_parts, the loop pass that added it
    raised,        \* the loop passes in which an exception reached the handler
    office_path,   \* _office_to_pdf: argument of the call under study
    office_env,    \* _office_to_pdf: what the environment answers
    office_files,  \* _office_to_pdf: the temporary directory at the call
    office_res,    \* _office_to_pdf: return value and engine calls made
    topic,         \* argument of the worker
    live,          \* the worker's docs is the list object State.topics[topic]
    catalog,       \* State.topics as a whole: topic name -> list
    added,         \* State.add_docs: value returned by the last call
    render_call,   \* _txt_to_pdf / _image_to_pdf: the call under study
    render_res     \* _txt_to_pdf / _image_to_pdf: what the call left

vars == << caps, current_topic, topics, fs, pc, filter_mode, docs, out_path,
           idx, tmpdir, tmpfiles, pdf_parts, log_lines, notes, merge_calls,
           appended, escaped, fs_before, part_doc, raised,
           office_path, office_env, office_files, office_res,
           topic, live, catalog, added, render_call, render_res >>

jobVars == << caps, current_topic, topics, fs, pc, filter_mode, docs,
              out_path, idx, tmpdir, tmpfiles, pdf_parts, log_lines, notes,
              merge_calls, appended, escaped, fs_before, part_doc, raised,
              topic, live >>

officeVars == << office_path, office_env, office_files, office_res >>

catalogVars == << catalog, added >>

renderVars == << render_call, render_res >>

(***************************************************************************)
(* Bounds                                                                  *)
(***************************************************************************)
MaxDocs == 2        \* longest catalog list of the topic
MaxMissing == 1     \* source files that no longer exist

(***************************************************************************)
(* Paths.  A path is its directory, its stem and its suffix, which is      *)
(* what Path(p).stem and Path(p).suffix take apart.                        *)
(***************************************************************************)
MkPath(dir, stem, ext) == [dir |-> dir, stem |-> stem, ext |-> ext]

None == MkPath("", "", "")

Topic == "T"

FilterModes == {"alle", "gelesene", "ungelesene"}

desktop_path == "Desktop"

\* out_path = desktop_path() / f"{topic}_{filter_mode}.pdf"
OutPathOf(t, fm) == MkPath(desktop_path, t \o "_" \o fm, ".pdf")

\* Source files the catalog may reference.  The first one is an earlier
\* export of the topic that was added to the topic itself.
SourcePaths ==
    { MkPath(desktop_path, "T_alle", ".pdf"),
      MkPath("docs", "b", ".TXT"),
      MkPath("docs", "c", ".png"),
      MkPath("docs", "e", ".docx"),
      MkPath("docs", "f", ".xyz") }

OutPaths == { OutPathOf(Topic, fm) : fm \in FilterModes }

FsPaths == SourcePaths \cup OutPaths

\* str.lower() on the suffixes that occur
Lower(ext) ==
    CASE ext = ".TXT" -> ".txt"
      [] ext = ".PDF" -> ".pdf"
      [] OTHER -> ext

IMAGE_EXTS == {".jpg", ".jpeg", ".gif", ".png"}
WORD_EXTS == {".doc", ".docx", ".odt", ".rtf"}
TXT_EXTS == {".txt"}
PDF_EXTS == {".pdf"}

\* tmpdir / (Path(path).stem + suffix)
TmpPath(path, suffix) == MkPath("tmp", path.stem \o suffix, ".pdf")

(***************************************************************************)
(* File contents.  st is "absent", "orig" (the file as the user left it),  *)
(* "partial" (opened for writing, not completely written) or "merged"      *)
(* (a written collection); pages lists the inputs a collection holds.      *)
(***************************************************************************)
Absent == [st |-> "absent", pages |-> << >>]
Orig == [st |-> "orig", pages |-> << >>]
Partial == [st |-> "partial", pages |-> << >>]
Merged(ps) == [st |-> "merged", pages |-> ps]

\* A file in the temporary directory: its path, the source it was converted
\* from, and whether it was written completely.
TmpFile(p, src, whole) == [path |-> p, from |-> src, whole |-> whole]

TmpExists(files, p) == \E f \in files : f.path = p

TmpWrite(files, p, src, whole) ==
    { f \in files : f.path # p } \cup { TmpFile(p, src, whole) }

TmpUnlink(files, p) == { f \in files : f.path # p }

(***************************************************************************)
(* The converters.  Each is an operator of its arguments, of the temporary *)
(* directory it writes into and of what the environment answers (o, env);  *)
(* it yields the return value and the temporary directory afterwards.      *)
(***************************************************************************)
Ret(r, files) == [ret |-> r, files |-> files]

\* What can happen inside the try block of _txt_to_pdf
TxtOutcomes == {"ok", "read_error", "save_error"}

\* App._txt_to_pdf
_txt_to_pdf(path, files, src_exists, o) ==
    IF ~caps.reportlab THEN Ret(None, files)
    ELSE LET out == TmpPath(path, "_txt") IN
         IF src_exists /\ o = "ok"
         THEN Ret(out, TmpWrite(files, out, path, TRUE))
         ELSE \* except: if out.exists(): out.unlink(); return None
              Ret(None, TmpUnlink(files, out))

\* What can happen inside one try block of _image_to_pdf
ImgOutcomes == {"ok", "decode_error", "save_error"}

\* One strategy of _image_to_pdf: a decode error writes nothing, an error
\* while saving leaves what was written so far, and nothing is deleted.
ImageTry(path, files, out, src_exists, o) ==
    IF src_exists /\ o = "ok"
    THEN Ret(out, TmpWrite(files, out, path, TRUE))
    ELSE IF src_exists /\ o = "save_error"
    THEN Ret(None, TmpWrite(files, out, path, FALSE))
    ELSE Ret(None, files)

\* App._image_to_pdf: ReportLab first, Pillow as the fallback
_image_to_pdf(path, files, src_exists, o_rl, o_pil) ==
    LET out == TmpPath(path, "_img")
        r1 == IF caps.reportlab
              THEN ImageTry(path, files, out, src_exists, o_rl)
              ELSE Ret(None, files)
        r2 == IF caps.pil
              THEN ImageTry(path, r1.files, out, src_exists, o_pil)
              ELSE Ret(None, r1.files)
    IN  IF r1.ret # None THEN r1 ELSE r2

(***************************************************************************)
(* App._office_to_pdf.  env holds what the environment answers during one  *)
(* call: which[c] is shutil.which(c), windows is platform.system() ==      *)
(* "Windows", run[c] is what subprocess.run of candidate c does and word   *)
(* what the Word automation does.  An engine call either returns or        *)
(* raises, and either has written the expected PDF or has not.  A headless *)
(* process that does not end is killed by timeout=180 and the call raises  *)
(* TimeoutExpired, which is one of the raising outcomes.  The Word calls   *)
(* (Dispatch, Documents.Open, SaveAs) take no timeout: when Word does not  *)
(* answer, the call does not return ("hang").                              *)
(***************************************************************************)
Candidates == << "soffice", "libreoffice" >>

EngineOutcomes == {"pdf", "nopdf", "raise", "pdf_raise"}

Wrote(o) == o \in {"pdf", "pdf_raise"}
Raised(o) == o \in {"raise", "pdf_raise"}

WordOutcomes == EngineOutcomes \cup {"hang"}

\* An engine that is not there has no outcome to choose: it is written "nopdf".
\* Behind an engine that writes the PDF and returns the converter asks for
\* nothing more: what would have answered is written as not there.
OfficeEnvs ==
    { e \in [ which : [ {"soffice", "libreoffice"} -> BOOLEAN ],
              windows : BOOLEAN,
              run : [ {"soffice", "libreoffice"} -> EngineOutcomes ],
              word : WordOutcomes ] :
        /\ \A c \in {"soffice", "libreoffice"} :
              ~e.which[c] => e.run[c] = "nopdf"
        /\ ~e.windows => e.word = "nopdf"
        /\ e.run["soffice"] = "pdf" => ~e.which["libreoffice"] /\ ~e.windows
        /\ e.run["libreoffice"] = "pdf" => ~e.windows }

\* One engine invocation as the converter sees it: the temporary directory
\* afterwards and whether the existence check was reached and passed.
EngineCall(name, path, files, out, src_exists, o) ==
    LET wrote == src_exists /\ Wrote(o)
        after == IF wrote THEN TmpWrite(files, out, path, TRUE) ELSE files
    IN  [ name |-> name,
          files |-> after,
          yields |-> ~Raised(o) /\ TmpExists(after, out) ]

\* The for loop over the candidates, from candidate k on: a candidate that
\* shutil.which does not find is passed over, one that is found is run, and
\* the loop is left by the return as soon as the expected PDF exists.
RECURSIVE HeadlessFrom(_, _, _, _, _, _)
HeadlessFrom(k, path, files, src_exists, env, calls) ==
    IF k > Len(Candidates)
    THEN [ret |-> None, files |-> files, calls |-> calls, hung |-> FALSE]
    ELSE LET cand == Candidates[k]
             out == TmpPath(path, "")
         IN  IF ~env.which[cand]
             THEN HeadlessFrom(k + 1, path, files, src_exists, env, calls)
             ELSE LET c == EngineCall(cand, path, files, out, src_exists,
                                      env.run[cand])
                      cs == Append(calls, [name |-> c.name, yields |-> c.yields])
                  IN  IF c.yields
                      THEN [ret |-> out, files |-> c.files, calls |-> cs,
                            hung |-> FALSE]
                      ELSE HeadlessFrom(k + 1, path, c.files, src_exists,
                                        env, cs)

\* hung: the call has not returned and never will
_office_to_pdf(path, files, src_exists, env) ==
    LET h == HeadlessFrom(1, path, files, src_exists, env, << >>)
        out_path_ == TmpPath(path, "")
    IN  IF h.ret # None THEN h
        ELSE IF ~env.windows THEN h
        ELSE IF env.word = "hang"
        THEN [ ret |-> None,
               files |-> h.files,
               calls |-> Append(h.calls, [name |-> "word", yields |-> FALSE]),
               hung |-> TRUE ]
        ELSE LET c == EngineCall("word", path, h.files, out_path_,
                                 src_exists, env.word)
                 cs == Append(h.calls, [name |-> c.name, yields |-> c.yields])
             IN  [ ret |-> IF c.yields THEN out_path_ ELSE None,
                   files |-> c.files,
                   calls |-> cs,
                   hung |-> FALSE ]

(***************************************************************************)
(* App._merge_pdfs                                                         *)
(***************************************************************************)
\* The subsequence of s at the positions in keep
Pick(s, keep) ==
    LET F[i \in 0..Len(s)] ==
            IF i = 0 THEN << >>
            ELSE IF i \in keep THEN Append(F[i - 1], s[i]) ELSE F[i - 1]
    IN  F[Len(s)]

\* merger.append(p) needs a complete file at p
Readable(p, files, fsys) ==
    IF p.dir = "tmp"
    THEN \E f \in files : f.path = p /\ f.whole
    ELSE p \in DOMAIN fsys /\ fsys[p].st \in {"orig", "merged"}

\* The source whose pages the file at p holds
HeldBy(p, files) ==
    IF p.dir = "tmp"
    THEN (CHOOSE f \in files : f.path = p).from
    ELSE p

\* has_merger: PdfMerger is not None; bad: the existing inputs that
\* merger.append rejects as defective; open_ok, write_ok: whether
\* open(out_path, "wb") and merger.write(f) go through.  written: the
\* inputs, in append order, whose pages the output holds.
_merge_pdfs(pdf_paths, out, files, fsys, has_merger, bad, open_ok, write_ok) ==
    IF ~has_merger
    THEN [ok |-> FALSE, fs |-> fsys, written |-> << >>]
    ELSE LET keep == { i \in 1..Len(pdf_paths) :
                          /\ pdf_paths[i] \notin bad
                          /\ Readable(pdf_paths[i], files, fsys) }
             app == Pick(pdf_paths, keep)
             pages == [ i \in 1..Len(app) |-> HeldBy(app[i], files) ]
         IN  IF ~open_ok
             THEN [ok |-> FALSE, fs |-> fsys, written |-> << >>]
             ELSE IF ~write_ok
             THEN [ok |-> FALSE,
                   fs |-> [fsys EXCEPT ![out] = Partial],
                   written |-> << >>]
             ELSE [ok |-> TRUE,
                   fs |-> [fsys EXCEPT ![out] = Merged(pages)],
                   written |-> app]

(***************************************************************************)
(* Initial states: the process after App.__init__.  State.load has read    *)
(* the catalog from the state file, so the topic may list any paths, also  *)
(* of files that have disappeared since and of suffixes add_docs would     *)
(* turn away.  The desktop holds an earlier export of the read documents  *)
(* and none of the unread ones, so that a job finds its output path taken  *)
(* under one filter and free under another.                                *)
(***************************************************************************)
DocRefs == [path : SourcePaths, read : BOOLEAN]

SeqsUpTo(S, n) == UNION { [1..k -> S] : k \in 0..n }

Range(q) == { q[i] : i \in 1..Len(q) }

PathsOf(ds) == { ds[i].path : i \in 1..Len(ds) }

NoJob ==
    /\ pc = "idle"
    /\ filter_mode = ""
    /\ docs = << >>
    /\ out_path = None
    /\ idx = 0
    /\ tmpdir = "none"
    /\ tmpfiles = {}
    /\ pdf_parts = << >>
    /\ log_lines = << >>
    /\ notes = << >>
    /\ merge_calls = << >>
    /\ appended = << >>
    /\ escaped = FALSE
    /\ fs_before = fs
    /\ part_doc = << >>
    /\ raised = {}
    /\ topic = ""
    /\ live = FALSE

\* State.__init__: self.topics = {}
NoCatalog ==
    /\ catalog = << >>
    /\ added = [ret |-> 0, gained |-> 0]

NoRenderCall ==
    /\ render_call = [path |-> None, o_txt |-> "ok", o_rl |-> "ok",
                      o_pil |-> "ok", k |-> 0]
    /\ render_res = [done |-> FALSE, ret |-> None, files |-> {}, text |-> "",
                     left |-> 0, y |-> 0, pages |-> 0, low |-> 0]

NoOfficeCall ==
    /\ office_path = None
    /\ office_env = [which |-> [c \in {"soffice", "libreoffice"} |-> FALSE],
                     windows |-> FALSE,
                     run |-> [c \in {"soffice", "libreoffice"} |-> "nopdf"],
                     word |-> "nopdf"]
    /\ office_files = {}
    /\ office_res = [done |-> FALSE, ret |-> None, files |-> {},
                     calls |-> << >>, hung |-> FALSE]

Init ==
    /\ caps \in [reportlab : BOOLEAN, pil : BOOLEAN]
    /\ current_topic \in {"", Topic}
    /\ topics \in SeqsUpTo(DocRefs, MaxDocs)
    /\ current_topic = "" => topics = << >>
    /\ fs \in [FsPaths -> {Orig, Absent}]
    /\ Cardinality({ p \in SourcePaths : fs[p] = Absent }) <= MaxMissing
    /\ \A p \in SourcePaths \ PathsOf(topics) : fs[p] = Orig
    /\ fs[OutPathOf(Topic, "gelesene")] = Orig
    /\ fs[OutPathOf(Topic, "ungelesene")] = Absent
    /\ NoJob
    /\ NoOfficeCall
    /\ NoCatalog
    /\ NoRenderCall

(***************************************************************************)
(* The export job                                                          *)
(***************************************************************************)
\* App.create_collection_pdf: the UI thread starts the worker
create_collection_pdf(fm) ==
    /\ pc = "idle"
    /\ current_topic # ""
    /\ pc' = "worker"
    /\ filter_mode' = fm
    /\ topic' = current_topic
    /\ fs_before' = fs
    /\ UNCHANGED << caps, current_topic, topics, fs, docs, out_path, idx,
                    tmpdir, tmpfiles, pdf_parts, log_lines, notes,
                    merge_calls, appended, escaped, part_doc, raised,
                    officeVars, catalogVars, renderVars, live >>

\* State.list_docs: self.topics.get(topic, []).  The list of the current
\* topic is the one the model holds; any other name gets the default.
list_docs(t) == IF t = current_topic THEN topics ELSE << >>

\* docs after the filter of the worker: a comprehension builds a new list,
\* with no filter docs stays the list object list_docs returned
Filtered(ds, fm) ==
    IF fm = "gelesene" THEN SelectSeq(ds, LAMBDA d : d.read)
    ELSE IF fm = "ungelesene" THEN SelectSeq(ds, LAMBDA d : ~d.read)
    ELSE ds

\* self.after(0, ...) of one message box: posted is FALSE when the call
\* raises, and then the exception leaves the worker.
Post(msg, posted) ==
    /\ notes' = IF posted THEN Append(notes, msg) ELSE notes
    /\ escaped' = ~posted

\* The worker up to the with statement: list_docs, the filter, the early
\* return for an empty list, out_path
WorkerFilter ==
    /\ pc = "worker"
    /\ live' = (topic = current_topic /\ filter_mode = "alle")
    /\ LET ds == Filtered(list_docs(topic), filter_mode) IN
        /\ docs' = ds
        /\ IF ds = << >>
           THEN /\ \E posted \in BOOLEAN : Post("NoInput", posted)
                /\ pc' = "done"
                /\ UNCHANGED out_path
           ELSE /\ out_path' = OutPathOf(topic, filter_mode)
                /\ pc' = "mktmp"
                /\ UNCHANGED << notes, escaped >>
    /\ UNCHANGED << caps, current_topic, topics, fs, filter_mode, idx, tmpdir,
                    tmpfiles, pdf_parts, log_lines, merge_calls, appended,
                    fs_before, part_doc, raised, officeVars, catalogVars,
                    renderVars, topic >>

\* with tempfile.TemporaryDirectory() as tmpdir, and the two empty lists.
\* Creating the directory can fail; nothing in the worker catches that.
EnterTmpdir ==
    /\ pc = "mktmp"
    /\ \E created \in BOOLEAN :
        IF created
        THEN /\ tmpdir' = "exists"
             /\ idx' = 1
             /\ pc' = "loop"
             /\ UNCHANGED escaped
        ELSE /\ escaped' = TRUE
             /\ pc' = "done"
             /\ UNCHANGED << tmpdir, idx >>
    /\ pdf_parts' = << >>
    /\ log_lines' = << >>
    /\ UNCHANGED << caps, current_topic, topics, fs, filter_mode, docs,
                    out_path, tmpfiles, notes, merge_calls, appended,
                    fs_before, part_doc, raised,
                    officeVars, catalogVars, renderVars, topic, live >>

(***************************************************************************)
(* The for loop over docs.  Every action below is one pass of the loop     *)
(* body for docs[idx], the handler of the loop's try statement included.   *)
(* exc says that an exception reached that handler: it comes from a        *)
(* statement of the called converter that no try block of the converter    *)
(* covers, so the converter has written nothing and returned nothing.      *)
(***************************************************************************)
Line(text, src) == [text |-> text, src |-> src]

OkTexts == {"OK: PDF", "OK: TXT -> PDF", "OK: Bild -> PDF", "OK: Office -> PDF"}
ToolTexts == {"Uebersprungen (TXT ohne ReportLab)",
              "Uebersprungen (Bild ohne ReportLab/Pillow)",
              "Uebersprungen (LibreOffice/Word nicht verfuegbar)"}
UnsupportedTexts == {"Uebersprungen (nicht unterstuetzt)"}
ErrorTexts == {"Fehler bei"}

InLoop == pc = "loop" /\ idx <= Len(docs)

src_ == docs[idx].path
ext_ == Lower(src_.ext)

Exists(p) == fs[p].st # "absent"

\* The end of one pass: the two lists and the temporary directory as the
\* pass leaves them, and the loop goes on with the next document
EndPass(parts, line, files, exc) ==
    /\ pdf_parts' = parts
    /\ log_lines' = Append(log_lines, line)
    /\ tmpfiles' = files
    /\ idx' = idx + 1
    /\ part_doc' = IF Len(parts) > Len(pdf_parts)
                   THEN Append(part_doc, idx) ELSE part_doc
    /\ raised' = IF exc THEN raised \cup {idx} ELSE raised
    /\ UNCHANGED << caps, current_topic, topics, fs, pc, filter_mode, docs,
                    out_path, tmpdir, notes, merge_calls, appended, escaped,
                    fs_before, officeVars, catalogVars, renderVars, topic,
                    live >>

\* Converted with a handler that logs the error and leaves the loop
Converted_break(r, exc, okText, skipText) ==
    IF exc
    THEN /\ pdf_parts' = pdf_parts
         /\ log_lines' = Append(log_lines, Line("Fehler bei", src_))
         /\ idx' = Len(docs) + 1
         /\ raised' = raised \cup {idx}
         /\ UNCHANGED << caps, current_topic, topics, fs, pc, filter_mode,
                         docs, out_path, tmpdir, tmpfiles, notes, merge_calls,
                         appended, escaped, fs_before, part_doc,
                         officeVars, catalogVars, renderVars, topic, live >>
    ELSE IF r.ret # None
    THEN EndPass(Append(pdf_parts, r.ret), Line(okText, src_), r.files, FALSE)
    ELSE EndPass(pdf_parts, Line(skipText, src_), r.files, FALSE)

\* Converted with a skip that is logged as a success
Converted_okskip(r, exc, okText, skipText) ==
    IF exc
    THEN EndPass(pdf_parts, Line("Fehler bei", src_), tmpfiles, TRUE)
    ELSE IF r.ret # None
    THEN EndPass(Append(pdf_parts, r.ret), Line(okText, src_), r.files, FALSE)
    ELSE EndPass(pdf_parts, Line(okText, src_), r.files, FALSE)

\* if pdfp: append and log OK, else: log the skip; except: log the error.
\* r is what the converter returns when no exception leaves it.
Converted(r, exc, okText, skipText) ==
    IF exc
    THEN EndPass(pdf_parts, Line("Fehler bei", src_), tmpfiles, TRUE)
    ELSE IF r.ret # None
    THEN EndPass(Append(pdf_parts, r.ret), Line(okText, src_), r.files, FALSE)
    ELSE EndPass(pdf_parts, Line(skipText, src_), r.files, FALSE)

\* HandlePdf with the path put at the front of the merge list
HandlePdf_front ==
    /\ InLoop
    /\ ext_ \in PDF_EXTS
    /\ EndPass(<< src_ >> \o pdf_parts, Line("OK: PDF", src_), tmpfiles, FALSE)

HandlePdf ==
    /\ InLoop
    /\ ext_ \in PDF_EXTS
    /\ EndPass(Append(pdf_parts, src_), Line("OK: PDF", src_), tmpfiles, FALSE)

HandleTxt ==
    /\ InLoop
    /\ ext_ \notin PDF_EXTS
    /\ ext_ \in TXT_EXTS
    /\ \/ Converted(Ret(None, tmpfiles), TRUE,
                    "OK: TXT -> PDF", "Uebersprungen (TXT ohne ReportLab)")
       \/ \E o \in TxtOutcomes :
          Converted(_txt_to_pdf(src_, tmpfiles, Exists(src_), o), FALSE,
                    "OK: TXT -> PDF", "Uebersprungen (TXT ohne ReportLab)")

HandleImage ==
    /\ InLoop
    /\ ext_ \notin PDF_EXTS \cup TXT_EXTS
    /\ ext_ \in IMAGE_EXTS
    /\ \/ Converted(Ret(None, tmpfiles), TRUE, "OK: Bild -> PDF",
                    "Uebersprungen (Bild ohne ReportLab/Pillow)")
       \/ \E o_rl \in ImgOutcomes, o_pil \in ImgOutcomes :
          Converted(_image_to_pdf(src_, tmpfiles, Exists(src_), o_rl, o_pil),
                    FALSE, "OK: Bild -> PDF",
                    "Uebersprungen (Bild ohne ReportLab/Pillow)")

\* The worker thread stays inside a converter call that does not return
Hang(files) ==
    /\ pc' = "hung"
    /\ tmpfiles' = files
    /\ UNCHANGED << caps, current_topic, topics, fs, filter_mode, docs,
                    out_path, idx, tmpdir, pdf_parts, log_lines, notes,
                    merge_calls, appended, escaped, fs_before, part_doc,
                    raised, officeVars, catalogVars, renderVars, topic, live >>

HandleOffice ==
    /\ InLoop
    /\ ext_ \notin PDF_EXTS \cup TXT_EXTS \cup IMAGE_EXTS
    /\ ext_ \in WORD_EXTS
    /\ \/ Converted(Ret(None, tmpfiles), TRUE, "OK: Office -> PDF",
                    "Uebersprungen (LibreOffice/Word nicht verfuegbar)")
       \/ \E env \in OfficeEnvs :
          LET r == _office_to_pdf(src_, tmpfiles, Exists(src_), env)
          IN  IF r.hung
              THEN Hang(r.files)
              ELSE Converted(r, FALSE, "OK: Office -> PDF",
                             "Uebersprungen (LibreOffice/Word nicht verfuegbar)")

HandleUnsupported ==
    /\ InLoop
    /\ ext_ \notin PDF_EXTS \cup TXT_EXTS \cup IMAGE_EXTS \cup WORD_EXTS
    /\ EndPass(pdf_parts, Line("Uebersprungen (nicht unterstuetzt)", src_),
               tmpfiles, FALSE)

(***************************************************************************)
(* After the loop                                                          *)
(***************************************************************************)
\* LeaveWith with a directory that is removed on a return only
LeaveWith_leak ==
    /\ tmpdir' = IF escaped' THEN tmpdir ELSE "removed"
    /\ tmpfiles' = IF escaped' THEN tmpfiles ELSE {}
    /\ pc' = "done"

\* Leaving the with statement, by a return or by an exception, removes the
\* temporary directory with everything in it; then finally:
\* self._set_busy(False), and the worker thread ends.
LeaveWith ==
    /\ tmpdir' = "removed"
    /\ tmpfiles' = {}
    /\ pc' = "done"

\* if not pdf_parts: status_info(...); return
NothingToMerge ==
    /\ pc = "loop"
    /\ idx > Len(docs)
    /\ pdf_parts = << >>
    /\ \E posted \in BOOLEAN : Post("NothingToMerge", posted)
    /\ LeaveWith
    /\ UNCHANGED << caps, current_topic, topics, fs, filter_mode, docs,
                    out_path, idx, pdf_parts, log_lines, merge_calls,
                    appended, fs_before, part_doc, raised,
                    officeVars, catalogVars, renderVars, topic, live >>

\* What the environment can answer during one _merge_pdfs call.  Which
\* inputs are defective shows only in an output that is written.
MergeOracles(parts) ==
    { [has_merger |-> FALSE, bad |-> {}, open_ok |-> TRUE, write_ok |-> TRUE],
      [has_merger |-> TRUE, bad |-> {}, open_ok |-> FALSE, write_ok |-> TRUE],
      [has_merger |-> TRUE, bad |-> {}, open_ok |-> TRUE, write_ok |-> FALSE] }
    \cup { [has_merger |-> TRUE, bad |-> b, open_ok |-> TRUE, write_ok |-> TRUE] :
             b \in SUBSET Range(parts) }

\* MergeAndReport without the return for an empty merge list before it
MergeAndReport_unguarded ==
    /\ pc = "loop"
    /\ idx > Len(docs)
    /\ \E o \in MergeOracles(pdf_parts), posted \in BOOLEAN :
          LET m == _merge_pdfs(pdf_parts, out_path, tmpfiles, fs, o.has_merger,
                               o.bad, o.open_ok, o.write_ok)
          IN  /\ fs' = m.fs
              /\ appended' = m.written
              /\ Post(IF m.ok THEN "Success" ELSE "MergeFailed", posted)
    /\ merge_calls' = Append(merge_calls, pdf_parts)
    /\ LeaveWith
    /\ UNCHANGED << caps, current_topic, topics, filter_mode, docs, out_path,
                    idx, pdf_parts, log_lines, fs_before, part_doc, raised,
                    officeVars, catalogVars, renderVars, topic, live >>

\* _merge_pdfs(pdf_parts, out_path), then the message box for its result
MergeAndReport ==
    /\ pc = "loop"
    /\ idx > Len(docs)
    /\ pdf_parts # << >>
    /\ \E o \in MergeOracles(pdf_parts), posted \in BOOLEAN :
          LET m == _merge_pdfs(pdf_parts, out_path, tmpfiles, fs, o.has_merger,
                               o.bad, o.open_ok, o.write_ok)
          IN  /\ fs' = m.fs
              /\ appended' = m.written
              /\ Post(IF m.ok THEN "Success" ELSE "MergeFailed", posted)
    /\ merge_calls' = Append(merge_calls, pdf_parts)
    /\ LeaveWith
    /\ UNCHANGED << caps, current_topic, topics, filter_mode, docs, out_path,
                    idx, pdf_parts, log_lines, fs_before, part_doc, raised,
                    officeVars, catalogVars, renderVars, topic, live >>

(***************************************************************************)
(* One call of _office_to_pdf on its own: the document, the temporary      *)
(* directory it finds and the answers of the environment are drawn, the    *)
(* call is made, and its return value and engine calls are kept.           *)
(***************************************************************************)
OfficeDoc == MkPath("docs", "e", ".docx")

\* The temporary directory before the call: empty, or holding the PDF an
\* earlier document of the same stem was converted to
OfficeDirs == { {}, { TmpFile(TmpPath(OfficeDoc, ""),
                              MkPath("docs", "e", ".odt"), TRUE) } }

InitOffice ==
    /\ caps = [reportlab |-> FALSE, pil |-> FALSE]
    /\ current_topic = ""
    /\ topics = << >>
    /\ fs \in [ {OfficeDoc} -> {Orig, Absent} ]
    /\ NoJob
    /\ NoCatalog
    /\ NoRenderCall
    /\ office_path = OfficeDoc
    /\ office_env \in OfficeEnvs
    /\ office_files \in OfficeDirs
    /\ office_res = [done |-> FALSE, ret |-> None, files |-> {},
                     calls |-> << >>, hung |-> FALSE]

OfficeCall ==
    /\ ~office_res.done
    /\ ~office_res.hung
    /\ office_path # None
    /\ LET r == _office_to_pdf(office_path, office_files,
                               Exists(office_path), office_env)
       IN  office_res' = [done |-> ~r.hung, ret |-> r.ret, files |-> r.files,
                          calls |-> r.calls, hung |-> r.hung]
    /\ UNCHANGED << jobVars, catalogVars, renderVars, office_path, office_env,
                    office_files >>

NextOffice == OfficeCall

SpecOffice == InitOffice /\ [][NextOffice]_vars

Next ==
    \/ \E fm \in FilterModes : create_collection_pdf(fm)
    \/ WorkerFilter
    \/ EnterTmpdir
    \/ HandlePdf
    \/ HandleTxt
    \/ HandleImage
    \/ HandleOffice
    \/ HandleUnsupported
    \/ NothingToMerge
    \/ MergeAndReport

Spec == Init /\ [][Next]_vars

\* The worker thread and the UI thread are scheduled: a step that can be
\* taken is taken
SpecLive == Init /\ [][Next]_vars /\ WF_vars(Next)

(***************************************************************************)
(* The catalog: the methods of State, each an operator on the dict         *)
(* State.topics, and a specification that calls them in any order,         *)
(* starting from State.__init__.                                           *)
(***************************************************************************)
MaxPaths == 2       \* longest paths argument of one add_docs call
MaxEntries == 2     \* longest list a topic is let grow to

SUPPORTED_EXTS == {".txt", ".doc", ".docx", ".pdf", ".odt", ".rtf",
                   ".jpg", ".jpeg", ".gif", ".png"}

TopicNames == {Topic, "U"}

\* Paths handed to the methods: two supported files and one add_docs turns
\* away for its suffix
CatalogPaths == { MkPath("docs", "b", ".TXT"),
                  MkPath("docs", "c", ".png"),
                  MkPath("docs", "f", ".xyz") }

\* self.topics.get(topic, [])
Get(cat, t) == IF t \in DOMAIN cat THEN cat[t] ELSE << >>

\* self.topics[topic] = value
Put(cat, t, value) ==
    [ k \in DOMAIN cat \cup {t} |-> IF k = t THEN value ELSE cat[k] ]

\* State.ensure_topic
ensure_topic(cat, t) == IF t \in DOMAIN cat THEN cat ELSE Put(cat, t, << >>)

\* The for loop of State.add_docs over paths.  known is the set built
\* before the loop; the loop does not add to it.
AddLoop(ds, paths, known, isfile) ==
    LET F[k \in 0..Len(paths)] ==
            IF k = 0 THEN [list |-> ds, n |-> 0]
            ELSE LET p == paths[k] IN
                 IF /\ p \in isfile
                    /\ Lower(p.ext) \in SUPPORTED_EXTS
                    /\ p \notin known
                 THEN [ list |-> Append(F[k - 1].list,
                                        [path |-> p, read |-> FALSE]),
                        n |-> F[k - 1].n + 1 ]
                 ELSE F[k - 1]
    IN  F[Len(paths)]

\* State.add_docs: the dict afterwards and the value returned
add_docs(cat, t, paths, isfile) ==
    LET c1 == ensure_topic(cat, t)
        r == AddLoop(c1[t], paths, PathsOf(c1[t]), isfile)
    IN  [cat |-> Put(c1, t, r.list), ret |-> r.n]

\* State.remove_doc: a new list is bound to the topic
remove_doc(cat, t, path) ==
    Put(cat, t, SelectSeq(Get(cat, t), LAMBDA d : d.path # path))

\* State.set_read: the entries are changed in place
set_read(cat, t, path, is_read) ==
    IF t \notin DOMAIN cat THEN cat
    ELSE [ cat EXCEPT ![t] =
             [ i \in 1..Len(cat[t]) |->
                 IF cat[t][i].path = path
                 THEN [cat[t][i] EXCEPT !.read = is_read]
                 ELSE cat[t][i] ] ]

\* os.path.isfile
IsFile == { p \in DOMAIN fs : fs[p].st # "absent" }

InitCatalog ==
    /\ caps = [reportlab |-> FALSE, pil |-> FALSE]
    /\ current_topic = ""
    /\ topics = << >>
    /\ fs \in [CatalogPaths -> {Orig, Absent}]
    /\ Cardinality({ p \in CatalogPaths : fs[p] = Absent }) <= MaxMissing
    /\ NoJob
    /\ NoOfficeCall
    /\ NoCatalog
    /\ NoRenderCall

CallEnsureTopic(t) ==
    /\ catalog' = ensure_topic(catalog, t)
    /\ UNCHANGED << jobVars, officeVars, renderVars, added >>

CallAddDocs(t, paths) ==
    LET r == add_docs(catalog, t, paths, IsFile) IN
    /\ Len(r.cat[t]) <= MaxEntries
    /\ catalog' = r.cat
    /\ added' = [ ret |-> r.ret,
                  gained |-> Cardinality(PathsOf(r.cat[t])
                                           \ PathsOf(Get(catalog, t))) ]
    /\ UNCHANGED << jobVars, officeVars, renderVars >>

CallRemoveDoc(t, path) ==
    /\ catalog' = remove_doc(catalog, t, path)
    /\ UNCHANGED << jobVars, officeVars, renderVars, added >>

CallSetRead(t, path, is_read) ==
    /\ catalog' = set_read(catalog, t, path, is_read)
    /\ UNCHANGED << jobVars, officeVars, renderVars, added >>

NextCatalog ==
    \/ \E t \in TopicNames : CallEnsureTopic(t)
    \/ \E t \in TopicNames, paths \in SeqsUpTo(CatalogPaths, MaxPaths) :
          CallAddDocs(t, paths)
    \/ \E t \in TopicNames, path \in CatalogPaths : CallRemoveDoc(t, path)
    \/ \E t \in TopicNames, path \in CatalogPaths, is_read \in BOOLEAN :
          CallSetRead(t, path, is_read)

SpecCatalog == InitCatalog /\ [][NextCatalog]_vars

(***************************************************************************)
(* The UI thread beside the worker.  _set_busy changes the cursor and      *)
(* disables nothing, so every handler of the catalog can run while a job   *)
(* is under way.  The handlers act on the list of the current topic, the   *)
(* one list the model holds.  They are taken here only while the worker    *)
(* holds its list and has not left the loop: before that they lead to      *)
(* catalogs Init draws anyway, after it nothing reads the catalog.  The    *)
(* worker reads d["path"] of a document and, after its filter, never       *)
(* d["read"]: docs keeps the flags it had at the filter.                   *)
(***************************************************************************)
Underway == pc \in {"mktmp", "loop"}

\* Names a topic is renamed to
NewNames == TopicNames \ {Topic}

\* State.topics seen as the dict with the current topic as its one key
Cat == Put(<< >>, current_topic, topics)

\* App.on_drop and App.add_files_dialog: State.add_docs on the current
\* topic.  The entries are appended to the list object of the topic, which
\* the worker iterates when its docs is that object.
on_drop(paths) ==
    /\ Underway
    /\ current_topic # ""
    /\ LET r == add_docs(Cat, current_topic, paths, IsFile)
           list == r.cat[current_topic]
       IN  /\ Len(list) <= MaxDocs
           /\ topics' = list
           /\ docs' = IF live
                      THEN docs \o SubSeq(list, Len(topics) + 1, Len(list))
                      ELSE docs
    /\ UNCHANGED << caps, current_topic, fs, pc, filter_mode, out_path, idx,
                    tmpdir, tmpfiles, pdf_parts, log_lines, notes,
                    merge_calls, appended, escaped, fs_before, part_doc,
                    raised, officeVars, catalogVars, renderVars, topic, live >>

\* App.remove_selected_doc: State.remove_doc binds a new list to the topic,
\* the worker keeps the old one
remove_selected_doc(path) ==
    /\ Underway
    /\ current_topic # ""
    /\ path \in PathsOf(topics)
    /\ topics' = remove_doc(Cat, current_topic, path)[current_topic]
    /\ live' = FALSE
    /\ UNCHANGED << caps, current_topic, fs, pc, filter_mode, docs, out_path,
                    idx, tmpdir, tmpfiles, pdf_parts, log_lines, notes,
                    merge_calls, appended, escaped, fs_before, part_doc,
                    raised, officeVars, catalogVars, renderVars, topic >>

\* App.set_selected_read
set_selected_read(path, is_read) ==
    /\ Underway
    /\ current_topic # ""
    /\ path \in PathsOf(topics)
    /\ topics' = set_read(Cat, current_topic, path, is_read)[current_topic]
    /\ UNCHANGED << caps, current_topic, fs, pc, filter_mode, docs, out_path,
                    idx, tmpdir, tmpfiles, pdf_parts, log_lines, notes,
                    merge_calls, appended, escaped, fs_before, part_doc,
                    raised, officeVars, catalogVars, renderVars, topic, live >>

\* App.rename_topic: the list object moves to the new key
rename_topic(new) ==
    /\ Underway
    /\ current_topic # ""
    /\ new # current_topic
    /\ current_topic' = new
    /\ UNCHANGED << caps, topics, fs, pc, filter_mode, docs, out_path, idx,
                    tmpdir, tmpfiles, pdf_parts, log_lines, notes,
                    merge_calls, appended, escaped, fs_before, part_doc,
                    raised, officeVars, catalogVars, renderVars, topic, live >>

\* App.delete_topic: the key is popped, no topic is current
delete_topic ==
    /\ Underway
    /\ current_topic # ""
    /\ current_topic' = ""
    /\ topics' = << >>
    /\ live' = FALSE
    /\ UNCHANGED << caps, fs, pc, filter_mode, docs, out_path, idx, tmpdir,
                    tmpfiles, pdf_parts, log_lines, notes, merge_calls,
                    appended, escaped, fs_before, part_doc, raised,
                    officeVars, catalogVars, renderVars, topic >>

\* The process with a topic selected, both libraries installed and every
\* file of the catalog in its place
InitConcurrent ==
    /\ Init
    /\ caps = [reportlab |-> TRUE, pil |-> TRUE]
    /\ current_topic = Topic
    /\ \A p \in SourcePaths : fs[p] = Orig

\* The environment of the job is at its best: every tool is there, every
\* conversion and the merge go through, no call raises
Smooth ==
    /\ ~escaped
    /\ raised = {}
    /\ \A i \in 1..Len(log_lines) :
          log_lines[i].text \in OkTexts \cup UnsupportedTexts
    /\ \A i \in 1..Len(notes) : notes[i] # "MergeFailed"
    /\ Len(appended) \in {0, Len(pdf_parts)}

NextConcurrent ==
    \/ \E fm \in FilterModes : create_collection_pdf(fm) /\ Smooth'
    \/ WorkerFilter /\ Smooth'
    \/ EnterTmpdir /\ Smooth'
    \/ HandlePdf /\ Smooth'
    \/ HandleTxt /\ Smooth'
    \/ HandleImage /\ Smooth'
    \/ HandleOffice /\ Smooth'
    \/ HandleUnsupported /\ Smooth'
    \/ NothingToMerge /\ Smooth'
    \/ MergeAndReport /\ Smooth'
    \/ \E paths \in SeqsUpTo(SourcePaths, MaxPaths) : on_drop(paths)
    \/ \E path \in SourcePaths : remove_selected_doc(path)
    \/ \E path \in SourcePaths, is_read \in BOOLEAN :
          set_selected_read(path, is_read)
    \/ \E new \in NewNames : rename_topic(new)
    \/ delete_topic

SpecConcurrent == InitConcurrent /\ [][NextConcurrent]_vars

(***************************************************************************)
(* One call of _txt_to_pdf or _image_to_pdf on its own, made by the worker *)
(* into an empty temporary directory.  Lengths are in 1/1000 pt.           *)
(***************************************************************************)
MaxLines == 130     \* most lines one text source is drawn as

A4_width == 595276      \* reportlab.lib.pagesizes.A4[0] = 595.2756 pt
A4_height == 841890     \* reportlab.lib.pagesizes.A4[1] = 841.8898 pt
cm == 28346             \* reportlab.lib.units.cm = 28.3465 pt
margin == 2 * cm
line_height == 12000
TopY == A4_height - margin

\* max_chars = int((width - 2 * margin) / 6): the wrap width, which turns
\* the characters of a source line into drawn lines
max_chars == (A4_width - 2 * margin) \div 6000

\* What the worker logs for the value a converter returned
LogText(r, okText, skipText) == IF r.ret # None THEN okText ELSE skipText

RenderDocs == { MkPath("docs", "b", ".TXT"), MkPath("docs", "c", ".png") }

IsTxt(path) == Lower(path.ext) \in TXT_EXTS

\* The call is one of _txt_to_pdf that reads the source to its end
Draws ==
    /\ IsTxt(render_call.path)
    /\ caps.reportlab
    /\ Exists(render_call.path)
    /\ render_call.o_txt = "ok"

InitRender ==
    /\ caps \in [reportlab : BOOLEAN, pil : BOOLEAN]
    /\ current_topic = ""
    /\ topics = << >>
    /\ fs \in [RenderDocs -> {Orig, Absent}]
    /\ NoJob
    /\ NoOfficeCall
    /\ NoCatalog
    /\ render_call \in [ path : RenderDocs, o_txt : TxtOutcomes,
                          o_rl : ImgOutcomes, o_pil : ImgOutcomes,
                          k : 0..MaxLines ]
    /\ \A p \in RenderDocs \ {render_call.path} : fs[p] = Orig
    /\ IF IsTxt(render_call.path)
       THEN /\ render_call.o_rl = "ok" /\ render_call.o_pil = "ok"
            /\ ~Draws => render_call.k = 0
       ELSE render_call.o_txt = "ok" /\ render_call.k = 0
    /\ render_res = [done |-> FALSE, ret |-> None, files |-> {}, text |-> "",
                     left |-> render_call.k, y |-> TopY, pages |-> 0,
                     low |-> A4_height]

\* One drawn line of _txt_to_pdf: drawString at y, y -= line_height, and a
\* new page if y < margin.  left: lines still to draw, pages: pages
\* emitted, low: the lowest y a line was drawn at.
DrawLine ==
    /\ ~render_res.done
    /\ Draws
    /\ render_res.left > 0
    /\ LET r == render_res
           y2 == r.y - line_height
       IN  render_res' =
             [ r EXCEPT !.left = r.left - 1,
                        !.low = IF r.y < r.low THEN r.y ELSE r.low,
                        !.y = IF y2 < margin THEN TopY ELSE y2,
                        !.pages = IF y2 < margin THEN r.pages + 1
                                  ELSE r.pages ]
    /\ UNCHANGED << jobVars, officeVars, catalogVars, render_call >>

\* The call but for the drawing loop: for a text that is drawn, the
\* showPage after the loop, save and return
RenderCall ==
    /\ ~render_res.done
    /\ render_call.path # None
    /\ render_res.left = 0
    /\ LET c == render_call
           r == IF IsTxt(c.path)
                THEN _txt_to_pdf(c.path, {}, Exists(c.path), c.o_txt)
                ELSE _image_to_pdf(c.path, {}, Exists(c.path), c.o_rl,
                                   c.o_pil)
           text == IF IsTxt(c.path)
                   THEN LogText(r, "OK: TXT -> PDF",
                                "Uebersprungen (TXT ohne ReportLab)")
                   ELSE LogText(r, "OK: Bild -> PDF",
                                "Uebersprungen (Bild ohne ReportLab/Pillow)")
       IN  render_res' =
             [ render_res EXCEPT !.done = TRUE, !.ret = r.ret,
                                 !.files = r.files, !.text = text,
                                 !.pages = IF Draws THEN @ + 1 ELSE @ ]
    /\ UNCHANGED << jobVars, officeVars, catalogVars, render_call >>

NextRender == DrawLine \/ RenderCall

SpecRender == InitRender /\ [][NextRender]_vars

(***************************************************************************)
(* The export job on a catalog in which documents share a base name: a     *)
(* text file of the same name in another directory, and the same report    *)
(* as .docx and as .odt.  Both libraries are installed, every file is in   *)
(* its place and every document is unread.                                 *)
(***************************************************************************)
SameStemPaths == { MkPath("old", "b", ".txt"), MkPath("docs", "e", ".odt") }

InitSameStem ==
    /\ caps = [reportlab |-> TRUE, pil |-> TRUE]
    /\ current_topic = Topic
    /\ topics \in SeqsUpTo([path : SourcePaths \cup SameStemPaths,
                             read : {FALSE}], MaxDocs)
    /\ fs \in [FsPaths \cup SameStemPaths -> {Orig, Absent}]
    /\ \A p \in SourcePaths \cup SameStemPaths : fs[p] = Orig
    /\ fs[OutPathOf(Topic, "alle")] = Orig
    /\ fs[OutPathOf(Topic, "gelesene")] = Orig
    /\ fs[OutPathOf(Topic, "ungelesene")] = Absent
    /\ NoJob
    /\ NoOfficeCall
    /\ NoCatalog
    /\ NoRenderCall

SpecSameStem == InitSameStem /\ [][Next]_vars

(***************************************************************************)
(* Properties                                                              *)
(***************************************************************************)
OkLine(i) == log_lines[i].text \in OkTexts

\* The merge-list entry that belongs to a log line of outcome OK
ExpectedPart(line) ==
    CASE line.text = "OK: PDF" -> line.src
      [] line.text = "OK: TXT -> PDF" -> TmpPath(line.src, "_txt")
      [] line.text = "OK: Bild -> PDF" -> TmpPath(line.src, "_img")
      [] line.text = "OK: Office -> PDF" -> TmpPath(line.src, "")

IsSubseq(a, b) == \E keep \in SUBSET (1..Len(b)) : Pick(b, keep) = a

\* The job is over and has posted the message of a failure
JobFailed ==
    /\ pc = "done"
    /\ Len(notes) = 1
    /\ notes[1] \in {"NoInput", "NothingToMerge", "MergeFailed"}

JobSucceeded == pc = "done" /\ notes = << "Success" >>

\* C1: the merge list is, entry by entry and in the order of the filtered
\* list, the documents logged as OK; the merger is called with that list
\* and appends its inputs in the order of the list.
C1_MergeOrder ==
    /\ pc \notin {"idle", "worker"} =>
          docs = Filtered(topics, filter_mode) /\ IsSubseq(docs, topics)
    /\ Len(part_doc) = Len(pdf_parts)
    /\ \A k \in 1..Len(pdf_parts) :
          /\ part_doc[k] \in 1..Len(log_lines)
          /\ OkLine(part_doc[k])
          /\ log_lines[part_doc[k]].src = docs[part_doc[k]].path
          /\ pdf_parts[k] = ExpectedPart(log_lines[part_doc[k]])
    /\ \A j, k \in 1..Len(pdf_parts) : j < k => part_doc[j] < part_doc[k]
    /\ \A i \in 1..Len(log_lines) : OkLine(i) => i \in Range(part_doc)
    /\ \A c \in 1..Len(merge_calls) : merge_calls[c] = pdf_parts
    /\ IsSubseq(appended, pdf_parts)
    /\ JobSucceeded => Len(fs[out_path].pages) = Len(appended)

\* Two different documents were merged, in the order of the list
C1_Witness ==
    /\ JobSucceeded
    /\ Len(docs) = 2
    /\ docs[1].path # docs[2].path
    /\ appended = pdf_parts
    /\ part_doc = << 1, 2 >>
    /\ Lower(docs[2].path.ext) \in PDF_EXTS

\* C2: after a job that ended in a failure the file at the output path is
\* what it was before the job.
C2_OutputUntouched ==
    (JobFailed /\ out_path # None) => fs[out_path] = fs_before[out_path]

\* C3: no file the catalog refers to is changed by the job.
C3_SourcesUntouched ==
    \A p \in PathsOf(topics) : fs[p] = fs_before[p]

\* The loop has run to its end
LoopDone == pc = "done" /\ tmpdir = "removed"

\* C4: a pass in which an exception reached the handler logs one error line
\* for its document and adds nothing to the merge list, the loop goes on to
\* the last document, and the exception does not leave the worker.
C4_FailureContained ==
    /\ \A i \in raised :
          /\ i <= Len(log_lines)
          /\ log_lines[i] = Line("Fehler bei", docs[i].path)
          /\ i \notin Range(part_doc)
    /\ \A i \in 1..Len(log_lines) :
          log_lines[i].text \in ErrorTexts => i \in raised
    /\ pc = "loop" => Len(log_lines) = idx - 1 /\ ~escaped
    /\ LoopDone => Len(log_lines) = Len(docs) /\ idx = Len(docs) + 1

\* The first document raised, the second one was merged
C4_Witness ==
    /\ JobSucceeded
    /\ raised = {1}
    /\ Len(docs) = 2
    /\ OkLine(2)
    /\ part_doc = << 2 >>

ConvertibleExts == PDF_EXTS \cup TXT_EXTS \cup IMAGE_EXTS \cup WORD_EXTS

\* C5: a PDF, text, image or office document whose file is gone is logged
\* as an error, gets no entry in the merge list, and the loop goes on.
C5_MissingIsFailed ==
    /\ \A i \in 1..Len(log_lines) :
          ( /\ fs_before[docs[i].path] = Absent
            /\ Lower(docs[i].path.ext) \in ConvertibleExts ) =>
              log_lines[i].text \in ErrorTexts /\ i \notin Range(part_doc)
    /\ LoopDone => Len(log_lines) = Len(docs)

\* C6: when the job is over its temporary directory and the files in it
\* are gone, and a job with an empty filtered list has never created one.
C6_TmpdirRemoved ==
    /\ pc = "done" => tmpdir # "exists" /\ tmpfiles = {}
    /\ docs = << >> => tmpdir = "none" /\ tmpfiles = {}
    /\ tmpdir # "exists" => tmpfiles = {}

\* An exception left the job after a converter had written a temporary PDF
C6_Witness ==
    /\ pc = "done"
    /\ escaped
    /\ tmpdir = "removed"
    /\ \E k \in 1..Len(pdf_parts) : pdf_parts[k].dir = "tmp"

\* C7: the merger is never called with an empty list, and a job that ends
\* with no document or with an empty merge list has not called it and has
\* left the file system as it was.
C7_NoMergeWithoutInput ==
    /\ \A c \in 1..Len(merge_calls) : merge_calls[c] # << >>
    /\ (pc = "done" /\ pdf_parts = << >>) =>
          merge_calls = << >> /\ fs = fs_before
    /\ (JobFailed /\ notes[1] \in {"NoInput", "NothingToMerge"}) =>
          pdf_parts = << >>

\* Nothing to merge: one document unsupported, one without its tool
C7_Witness ==
    /\ JobFailed
    /\ notes[1] = "NothingToMerge"
    /\ Len(docs) = 2
    /\ \E i, j \in 1..2 :
          /\ log_lines[i].text \in UnsupportedTexts
          /\ log_lines[j].text \in ToolTexts

OkLines == { i \in 1..Len(log_lines) : OkLine(i) }

\* C8: the merge list has as many entries as the log has OK lines, each
\* entry was added by the pass that logged the OK line, and the merger is
\* called with that many paths.
C8_PartsMatchOk ==
    /\ Len(pdf_parts) = Cardinality(OkLines)
    /\ Range(part_doc) = OkLines
    /\ Cardinality(Range(part_doc)) = Len(part_doc)
    /\ \A c \in 1..Len(merge_calls) :
          Len(merge_calls[c]) = Cardinality(OkLines)

\* The merger was called with one path for two documents, one of them skipped
C8_Witness ==
    /\ pc = "done"
    /\ Len(merge_calls) = 1
    /\ Len(docs) = 2
    /\ Cardinality(OkLines) = 1
    /\ \E i \in 1..2 : log_lines[i].text \in ToolTexts \cup UnsupportedTexts

HeadlessCalls(cs) ==
    { k \in 1..Len(cs) : cs[k].name \in {"soffice", "libreoffice"} }
WordCalls(cs) == { k \in 1..Len(cs) : cs[k].name = "word" }

\* C9: the headless engine is tried before Word, each of the two at most
\* once, nothing is tried after a strategy that yields the expected PDF,
\* and the call returns None exactly when no strategy yields it.
C9_TwoStrategiesOnce ==
    office_res.done =>
        LET cs == office_res.calls IN
        /\ \A j \in HeadlessCalls(cs), k \in WordCalls(cs) : j < k
        /\ Cardinality(HeadlessCalls(cs)) <= 1
        /\ Cardinality(WordCalls(cs)) <= 1
        /\ \A k \in 1..Len(cs) : cs[k].yields => k = Len(cs)
        /\ (office_res.ret = None) <=> (\A k \in 1..Len(cs) : ~cs[k].yields)
        /\ office_res.ret # None => office_res.ret = TmpPath(office_path, "")

\* C10: a job that is over has posted exactly one message box, and none is
\* posted before the last document has been handled.
C10_OneNotification ==
    /\ Len(notes) <= 1
    /\ pc = "done" => Len(notes) = 1
    /\ notes # << >> => pc = "done" /\ Len(log_lines) = Len(docs)

\* C11: every job that was started comes to its end, whatever the engines
\* of the office converter do, a call that does not return by itself
\* included.
C11_JobTerminates == (pc = "worker") ~> (pc = "done")

\* C12: no topic holds two entries with the same path, and add_docs returns
\* the number of distinct documents the topic gained by the call.
C12_UniquePaths ==
    /\ \A t \in DOMAIN catalog :
          \A i, j \in 1..Len(catalog[t]) :
             i # j => catalog[t][i].path # catalog[t][j].path
    /\ added.ret = added.gained

PathSeq(ds) == [ i \in 1..Len(ds) |-> ds[i].path ]

\* C13: once the worker has its list, no step adds, removes or reorders
\* the documents of the job, and no step of the job changes the catalog.
C13_DocsFixed ==
    [][ /\ (pc \in {"mktmp", "loop"}) => PathSeq(docs') = PathSeq(docs)
        /\ (pc' # pc \/ idx' # idx) =>
              topics' = topics /\ current_topic' = current_topic ]_vars

\* A strategy of the renderer was run and every strategy that was run hit
\* an error
ErrorHit ==
    /\ render_res.done
    /\ LET c == render_call
           bad(o) == o # "ok" \/ ~Exists(c.path)
       IN  IF IsTxt(c.path)
           THEN caps.reportlab /\ bad(c.o_txt)
           ELSE /\ caps.reportlab \/ caps.pil
                /\ caps.reportlab => bad(c.o_rl)
                /\ caps.pil => bad(c.o_pil)

\* C14: a renderer call that hit an error returns no path, leaves no
\* partly written file in the temporary directory, and is not logged as a
\* missing tool.
C14_ErrorIsFailed ==
    ErrorHit =>
        /\ render_res.ret = None
        /\ \A f \in render_res.files : f.whole
        /\ render_res.text \notin ToolTexts

LinesPerPage == (TopY - margin) \div line_height + 1

\* C15: a text drawn as k lines comes out as max(1, ceil(k / L)) pages,
\* L the lines that fit on a page, and no line is drawn below the margin.
C15_PageCount ==
    (render_res.done /\ render_res.pages > 0) =>
        LET k == render_call.k
            full == (k + LinesPerPage - 1) \div LinesPerPage
        IN  /\ render_res.pages = IF full > 1 THEN full ELSE 1
            /\ render_res.low >= margin

\* C16: while the job is in its loop and when it merges, every entry of the
\* merge list that a converter produced names a complete file in the
\* temporary directory that was converted from the document the entry was
\* logged for.
C16_PartsHoldTheirDoc ==
    pc = "loop" =>
        \A k \in 1..Len(pdf_parts) :
            pdf_parts[k].dir = "tmp" =>
                \E f \in tmpfiles :
                    /\ f.path = pdf_parts[k]
                    /\ f.whole
                    /\ f.from = docs[part_doc[k]].path

\* C17: a job that reports success has written at least one input into its
\* output, and no job leaves a collection without pages at the output path.
C17_SuccessHasPages ==
    /\ JobSucceeded => appended # << >> /\ fs[out_path].pages # << >>
    /\ (pc = "done" /\ merge_calls # << >>) =>
          fs[out_path] # Merged(<< >>)

====
